---- MODULE Spec2Model ----
(***************************************************************************)
(* Model of the metrics aggregation (DatabaseManager) and the load         *)
(* classifier (SimpleAnomalyDetector) of src/src/core/database.py, and of  *)
(* the dashboard run (src/streamlit_app.py) that calls them in sequence.   *)
(*                                                                         *)
(* Python dicts are insertion ordered: a dict is a sequence of             *)
(* [key, val] entries with distinct keys.  Python floats that are          *)
(* quotients of small integers are kept as exact fractions [num, den];     *)
(* for the counts and lengths within the bounds below the double           *)
(* comparisons of the code agree with the exact ones.                      *)
(***************************************************************************)
EXTENDS Integers, Sequences, FiniteSets, TLC

\* ------------------------------------------------------------------ bounds
MaxHours == 4        \* entries of a directly supplied hour->count mapping
MaxCount == 4        \* largest count of a directly supplied mapping
MaxRecords == 2      \* records generate_sample_data writes
MaxFaulty == 1       \* stores that are not up during one dashboard run

\* hours of day offered as keys of a directly supplied mapping
HourSample == {0, 9, 17, 18}

\* values a call can hand back besides a report: Python's None, a raised
\* exception, and the marker of a call that has not been made yet
None == [tag |-> "None"]
Raised(exc) == [tag |-> "raised", exc |-> exc]
NotRun == [tag |-> "not_run"]

\* ------------------------------------------------- SimpleAnomalyDetector
WorkHourFirst == 9
WorkHourStop == 18
HoursPerDay == 24
MultiplierDen == 10
HighLoadNum == 11
LowLoadNum == 9
WorkThresholdNum == 11
OffThresholdNum == 9
TopN == 3

\* self.multipliers['work_hours'] = range(9, 18)
work_hours == WorkHourFirst .. (WorkHourStop - 1)

Min(a, b) == IF a <= b THEN a ELSE b
Max(a, b) == IF a >= b THEN a ELSE b

RECURSIVE SumSeq(_)
SumSeq(s) == IF s = << >> THEN 0 ELSE Head(s) + SumSeq(Tail(s))

\* exact fractions standing for the floats of the code
Frac(n, d) == [num |-> n, den |-> d]
FracEq(a, b) == a.num * b.den = b.num * a.den
FracGeq(a, b) == a.num * b.den >= b.num * a.den
FracLeq(a, b) == a.num * b.den <= b.num * a.den

\* keys of an hourly mapping: the string "9" or the integer 9
StrKey(h) == [kind |-> "str", hour |-> h]
IntKey(h) == [kind |-> "int", hour |-> h]

\* dict helpers
DictHas(d, k) == \E i \in 1..Len(d) : d[i].key = k
DictGet(d, k) == d[CHOOSE i \in 1..Len(d) : d[i].key = k].val
DictKeys(d) == {d[i].key : i \in 1..Len(d)}
DictValues(d) == [i \in 1..Len(d) |-> d[i].val]

\* [hourly_data[str(hour)] for hour in lo..hi-1 if keep(hour) and str(hour) in hourly_data]
RECURSIVE HoursValues(_, _, _, _)
HoursValues(hourly_data, hour, stop, wantWork) ==
    IF hour >= stop THEN << >>
    ELSE LET rest == HoursValues(hourly_data, hour + 1, stop, wantWork)
         IN  IF ((hour \in work_hours) = wantWork) /\ DictHas(hourly_data, StrKey(hour))
             THEN <<DictGet(hourly_data, StrKey(hour))>> \o rest
             ELSE rest

work_hours_values(hourly_data) == HoursValues(hourly_data, WorkHourFirst, WorkHourStop, TRUE)
off_hours_values(hourly_data) == HoursValues(hourly_data, 0, HoursPerDay, FALSE)

avg_load_of(hourly_data) ==
    Frac(SumSeq(DictValues(hourly_data)), Len(hourly_data))

PartitionAvg(vals, avg_load) ==
    IF vals # << >> THEN Frac(SumSeq(vals), Len(vals)) ELSE avg_load

LoadStatus(load_ratio) ==
    IF FracGeq(load_ratio, Frac(HighLoadNum, MultiplierDen)) THEN "high"
    ELSE IF FracLeq(load_ratio, Frac(LowLoadNum, MultiplierDen)) THEN "low"
    ELSE "normal"

LoadAction(status) ==
    CASE status = "high" -> "scale_up"
      [] status = "low" -> "scale_down"
      [] OTHER -> "maintain"

\* the loop body with the ratio taken against the hour's partition average
LoadPatternPartitionRatio(entry, avg_load, work_hours_avg, off_hours_avg) ==
    LET hour == entry.key.hour
        count == entry.val
        is_work_hour == hour \in work_hours
        baseline == IF is_work_hour THEN work_hours_avg ELSE off_hours_avg
        expected_threshold ==
            IF is_work_hour
            THEN Frac(baseline.num * WorkThresholdNum, baseline.den * MultiplierDen)
            ELSE Frac(baseline.num * OffThresholdNum, baseline.den * MultiplierDen)
        load_ratio == Frac(count * baseline.den, baseline.num)
        status == LoadStatus(load_ratio)
    IN  [hour |-> hour, count |-> count, load_ratio |-> load_ratio,
         status |-> status, action |-> LoadAction(status),
         is_work_hour |-> is_work_hour, expected_threshold |-> expected_threshold]

\* one iteration of the loop over hourly_data.items()
LoadPattern(entry, avg_load, work_hours_avg, off_hours_avg) ==
    LET hour == entry.key.hour
        count == entry.val
        is_work_hour == hour \in work_hours
        baseline == IF is_work_hour THEN work_hours_avg ELSE off_hours_avg
        expected_threshold ==
            IF is_work_hour
            THEN Frac(baseline.num * WorkThresholdNum, baseline.den * MultiplierDen)
            ELSE Frac(baseline.num * OffThresholdNum, baseline.den * MultiplierDen)
        load_ratio == Frac(count * avg_load.den, avg_load.num)
        status == LoadStatus(load_ratio)
    IN  [hour |-> hour, count |-> count, load_ratio |-> load_ratio,
         status |-> status, action |-> LoadAction(status),
         is_work_hour |-> is_work_hour, expected_threshold |-> expected_threshold]

\* an insertion that writes over the entry it should go in front of
InsertByCountOverwrite(sorted, p) ==
    LET k == Cardinality({i \in 1..Len(sorted) : sorted[i].count >= p.count})
    IN  SubSeq(sorted, 1, k) \o <<p>> \o SubSeq(sorted, k + 2, Len(sorted))

\* list.sort(key=count, reverse=True): stable, equal counts keep their order
InsertByCount(sorted, p) ==
    LET k == Cardinality({i \in 1..Len(sorted) : sorted[i].count >= p.count})
    IN  SubSeq(sorted, 1, k) \o <<p>> \o SubSeq(sorted, k + 1, Len(sorted))

\* the sort without reverse=True
RECURSIVE SortByCountAsc(_)
SortByCountAsc(s) ==
    IF s = << >> THEN << >>
    ELSE LET rest == SortByCountAsc(SubSeq(s, 1, Len(s) - 1))
             p == s[Len(s)]
             k == Cardinality({i \in 1..Len(rest) : rest[i].count <= p.count})
         IN  SubSeq(rest, 1, k) \o <<p>> \o SubSeq(rest, k + 1, Len(rest))

RECURSIVE SortByCountDesc(_)
SortByCountDesc(s) ==
    IF s = << >> THEN << >>
    ELSE InsertByCount(SortByCountDesc(SubSeq(s, 1, Len(s) - 1)), s[Len(s)])

CountStatus(patterns, st) == Cardinality({i \in 1..Len(patterns) : patterns[i].status = st})

\* the body of analyze_load_patterns below its guard; count / avg_load raises
\* ZeroDivisionError in the first pass of the loop when every count is 0
AnalyzeNonEmpty(hourly_data) ==
    LET avg_load == avg_load_of(hourly_data)
        work_hours_avg == PartitionAvg(work_hours_values(hourly_data), avg_load)
        off_hours_avg == PartitionAvg(off_hours_values(hourly_data), avg_load)
    IN  IF avg_load.num = 0
        THEN Raised("ZeroDivisionError")
        ELSE
        LET load_patterns == SortByCountDesc(
                [i \in 1..Len(hourly_data) |->
                    LoadPattern(hourly_data[i], avg_load, work_hours_avg, off_hours_avg)])
            n == Len(load_patterns)
        IN  [tag |-> "analysis",
             patterns |-> load_patterns,
             summary |-> [
                average_load |-> avg_load,
                work_hours_avg |-> work_hours_avg,
                off_hours_avg |-> off_hours_avg,
                peak_hours |-> SubSeq(load_patterns, 1, Min(TopN, n)),
                quiet_hours |-> SubSeq(load_patterns, Max(1, n - TopN + 1), n),
                high_load_hours |-> CountStatus(load_patterns, "high"),
                low_load_hours |-> CountStatus(load_patterns, "low")]]

\* the call without its "if not hourly_data" guard: sum([]) / len([])
analyze_load_patterns_unguarded(hourly_data) ==
    IF hourly_data = << >> THEN Raised("ZeroDivisionError")
    ELSE AnalyzeNonEmpty(hourly_data)

analyze_load_patterns(hourly_data) ==
    IF hourly_data = << >> THEN None
    ELSE AnalyzeNonEmpty(hourly_data)

\* --------------------------------------------------------- backing stores
\* sample values of generate_sample_data; a timestamp is a whole hour counted
\* from midnight of day 0: 9 and 20 fall on day 0, 33 is 09:00 of day 1
Sources == {"web", "api"}
Users == {"user_1"}
Actions == {"view"}
Statuses == {"completed", "failed"}
TimeSample == {9, 20, 33}

Backends == {"mongo", "elasticsearch", "timescale", "redis"}

CreationDocs == [timestamp : TimeSample, source : Sources]
AccessDocs == [timestamp : TimeSample, user_id : Users, action : Actions]
MovementRows == {r \in [timestamp : TimeSample, source : Sources,
                        destination : Sources, status : Statuses] :
                    r.destination # r.source}

DateOf(ts) == ts \div HoursPerDay
HourOf(ts) == ts % HoursPerDay

RECURSIVE SumOver(_, _)
SumOver(f, S) ==
    IF S = {} THEN 0
    ELSE LET x == CHOOSE y \in S : TRUE IN f[x] + SumOver(f, S \ {x})

\* every ordering of the set S as a sequence
Orderings(S) ==
    {q \in [1..Cardinality(S) -> S] : \A i, j \in 1..Cardinality(S) : i # j => q[i] # q[j]}

\* a window closed at its start and open at its end
InWindowHalfOpen(ts, w) == w.start <= ts /\ ts < w.end

\* "timestamp": {"$gte": start_date, "$lte": end_date}, BETWEEN %s AND %s,
\* range gte/lte: the three stores select the same way
InWindow(ts, w) == w.start <= ts /\ ts <= w.end

\* the $match/$group/$sort pipeline: one row per (date, hour, source) with
\* documents in the window, ordered by date then hour; rows of the same date
\* and hour come in any order
CreationGroups(coll, w) ==
    {[date |-> DateOf(d.timestamp), hour |-> HourOf(d.timestamp), source |-> d.source,
      count |-> SumOver(coll, {e \in CreationDocs :
                                  /\ InWindow(e.timestamp, w)
                                  /\ DateOf(e.timestamp) = DateOf(d.timestamp)
                                  /\ HourOf(e.timestamp) = HourOf(d.timestamp)
                                  /\ e.source = d.source})] :
        d \in {e \in CreationDocs : InWindow(e.timestamp, w) /\ coll[e] > 0}}

Aggregate(coll, w) ==
    {q \in Orderings(CreationGroups(coll, w)) :
        \A i \in 1..(Len(q) - 1) :
            \/ q[i].date < q[i + 1].date
            \/ q[i].date = q[i + 1].date /\ q[i].hour <= q[i + 1].hour}

\* the SELECT ... GROUP BY hour, source, destination, status ORDER BY hour
MovementGroups(table, w) ==
    {[hour |-> r.timestamp, source |-> r.source, destination |-> r.destination,
      status |-> r.status, movement_count |-> table[r]] :
        r \in {x \in MovementRows : InWindow(x.timestamp, w) /\ table[x] > 0}}

SelectMovements(table, w) ==
    {q \in Orderings(MovementGroups(table, w)) :
        \A i \in 1..(Len(q) - 1) : q[i].hour <= q[i + 1].hour}

\* date_histogram, fixed_interval 1h: one bucket per hour from the first to
\* the last matching document, empty hours in between included
Matching(index, w) == {d \in AccessDocs : InWindow(d.timestamp, w) /\ index[d] > 0}

DateHistogram(index, w) ==
    LET hit == Matching(index, w)
        ts == {d.timestamp : d \in hit}
    IN  IF hit = {} THEN << >>
        ELSE LET lo == CHOOSE t \in ts : \A u \in ts : t <= u
                 hi == CHOOSE t \in ts : \A u \in ts : t >= u
             IN  [t \in lo..hi |-> SumOver(index, {d \in hit : d.timestamp = t})]

\* terms aggregations on user_id and action
TermsByUser(index, w) ==
    LET hit == Matching(index, w)
    IN  [u \in {d.user_id : d \in hit} |-> SumOver(index, {d \in hit : d.user_id = u})]

TermsByAction(index, w) ==
    LET hit == Matching(index, w)
    IN  [a \in {d.action : d \in hit} |-> SumOver(index, {d \in hit : d.action = a})]

\* -------------------------------------------------------- DatabaseManager
\* d[k] = c: the count written over what the key held
DictAddOverwrite(d, k, c) ==
    IF DictHas(d, k)
    THEN [i \in 1..Len(d) |-> IF d[i].key = k THEN [key |-> k, val |-> c] ELSE d[i]]
    ELSE Append(d, [key |-> k, val |-> c])

\* d[k] = d.get(k, 0) + c
DictAdd(d, k, c) ==
    IF DictHas(d, k)
    THEN [i \in 1..Len(d) |-> IF d[i].key = k THEN [key |-> k, val |-> d[i].val + c] ELSE d[i]]
    ELSE Append(d, [key |-> k, val |-> c])

RECURSIVE BySource(_)
BySource(results) ==
    IF results = << >> THEN << >>
    ELSE LET r == results[Len(results)]
         IN  DictAdd(BySource(SubSeq(results, 1, Len(results) - 1)), r.source, r.count)

\* by_hour built from the rows of the first date only
RECURSIVE ByHourOfFirstDate(_)
ByHourOfFirstDate(results) ==
    IF results = << >> THEN << >>
    ELSE LET r == results[Len(results)]
             before == ByHourOfFirstDate(SubSeq(results, 1, Len(results) - 1))
         IN  IF r.date = results[1].date THEN DictAdd(before, IntKey(r.hour), r.count)
             ELSE before

RECURSIVE ByHour(_)
ByHour(results) ==
    IF results = << >> THEN << >>
    ELSE LET r == results[Len(results)]
         IN  DictAdd(ByHour(SubSeq(results, 1, Len(results) - 1)), IntKey(r.hour), r.count)

\* total_count taken as the number of rows
CreationReportRowCount(results) ==
    [tag |-> "report",
     total_count |-> Len(results),
     by_source |-> BySource(results),
     by_hour |-> ByHour(results),
     trend_data |-> results]

\* the body of get_creation_metrics after the aggregate call
CreationReport(results) ==
    [tag |-> "report",
     total_count |-> SumSeq(DictValues(BySource(results))),
     by_source |-> BySource(results),
     by_hour |-> ByHour(results),
     trend_data |-> results]

\* the exception of an unreachable store let through as a typed failure
get_creation_metrics_typed(backend, results) ==
    IF backend = "unreachable" THEN Raised("BackendUnavailable")
    ELSE IF backend # "up" THEN None ELSE CreationReport(results)

\* try: ... except Exception: return None
get_creation_metrics(backend, results) ==
    IF backend # "up" THEN None ELSE CreationReport(results)

\* pd.DataFrame(results)[column].value_counts().to_dict(): rows per value
ValueCounts(column) ==
    [v \in {column[i] : i \in 1..Len(column)} |->
        Cardinality({i \in 1..Len(column) : column[i] = v})]

\* total_movements taken as the number of rows
MovementReportRowCount(results) ==
    IF results = << >> THEN None
    ELSE [tag |-> "report",
          movements |-> results,
          summary |-> [
            total_movements |-> Len(results),
            by_status |-> ValueCounts([i \in 1..Len(results) |-> results[i].status]),
            by_source |-> ValueCounts([i \in 1..Len(results) |-> results[i].source])]]

\* the body of get_movement_data after fetchall; pd.DataFrame([])['status']
\* raises KeyError, which the except clause turns into None
MovementReport(results) ==
    IF results = << >> THEN None
    ELSE [tag |-> "report",
          movements |-> results,
          summary |-> [
            total_movements |-> SumSeq([i \in 1..Len(results) |-> results[i].movement_count]),
            by_status |-> ValueCounts([i \in 1..Len(results) |-> results[i].status]),
            by_source |-> ValueCounts([i \in 1..Len(results) |-> results[i].source])]]

get_movement_data(backend, results) ==
    IF backend # "up" THEN None ELSE MovementReport(results)

get_access_patterns(backend, index, w) ==
    IF backend # "up" THEN None
    ELSE [tag |-> "report",
          by_hour |-> DateHistogram(index, w),
          by_user |-> TermsByUser(index, w),
          by_action |-> TermsByAction(index, w)]

\* int(get('usage:total_records') or 0) and the decoded hgetall
CurrentMetrics(counters) ==
    [total_records |-> IF counters.has_total THEN counters.total_records ELSE 0,
     by_source |-> counters.by_source]

\* each half guarded on its own, a failed half filled with defaults
get_usage_analytics_soft(redis_backend, es_backend, counters, index, w) ==
    [tag |-> "report",
     current_metrics |-> IF redis_backend = "up" THEN CurrentMetrics(counters)
                         ELSE [total_records |-> 0, by_source |-> << >>],
     historical_metrics |-> [over_time |-> IF es_backend = "up"
                                           THEN DateHistogram(index, w) ELSE << >>]]

\* int(get('usage:total_records')) without "or 0": TypeError on a missing key
get_usage_analytics_no_default(redis_backend, es_backend, counters, index, w) ==
    IF redis_backend # "up" \/ es_backend # "up" \/ ~counters.has_total THEN None
    ELSE [tag |-> "report",
          current_metrics |-> CurrentMetrics(counters),
          historical_metrics |-> [over_time |-> DateHistogram(index, w)]]

\* the usage_over_time search with "lt" in place of "lte"
get_usage_analytics_lt(redis_backend, es_backend, counters, index, w) ==
    IF redis_backend # "up" THEN None
    ELSE IF es_backend # "up" THEN None
    ELSE [tag |-> "report",
          current_metrics |-> CurrentMetrics(counters),
          historical_metrics |->
            [over_time |-> DateHistogram(index, [start |-> w.start, end |-> w.end - 1])]]

\* both reads sit in one try block: either backend failing empties the report
get_usage_analytics(redis_backend, es_backend, counters, index, w) ==
    IF redis_backend # "up" THEN None
    ELSE IF es_backend # "up" THEN None
    ELSE [tag |-> "report",
          current_metrics |-> CurrentMetrics(counters),
          historical_metrics |-> [over_time |-> DateHistogram(index, w)]]

\* ----------------------------------------------------------------- state
VARIABLES
    data_creation,      \* MongoDB collection: documents per (timestamp, source)
    data_access,        \* Elasticsearch index: documents per (timestamp, user, action)
    data_movements,     \* TimescaleDB table: rows per (timestamp, source, destination, status)
    redis,              \* usage:total_records and usage:by_source
    populator,          \* generate_sample_data: where it is, records_created
    backend,            \* per store: "up", "unreachable" or "rejecting" (query error)
    pc,                 \* position of the dashboard run
    window,             \* session_state start_date / end_date
    creation_metrics,   \* results of the run, NotRun until fetched
    access_patterns,
    movement_data,
    usage_data,
    hourly_data,        \* the mapping handed to analyze_load_patterns
    analysis,           \* what the call returned; NotRun before the call
    locals              \* locals of calls in flight: the populator's source,
                        \* the two cache reads of get_usage_analytics

stores == <<data_creation, data_access, data_movements, redis, populator>>
reports == <<creation_metrics, access_patterns, movement_data, usage_data>>
vars == <<stores, backend, pc, window, reports, hourly_data, analysis, locals>>

NoWindow == [start |-> 0, end |-> 0]

NoLocals == [source |-> "none", total_records |-> 0, by_source |-> << >>]

Windows == {w \in [start : TimeSample, end : TimeSample] : w.start <= w.end}

\* stores that are not all up
Faulty(b) == {x \in Backends : b[x] # "up"}

Init ==
    /\ data_creation = [d \in CreationDocs |-> 0]
    /\ data_access = [d \in AccessDocs |-> 0]
    /\ data_movements = [r \in MovementRows |-> 0]
    /\ redis = [has_total |-> FALSE, total_records |-> 0, by_source |-> << >>]
    /\ populator = [pc |-> "start", records_created |-> 0]
    /\ backend = [x \in Backends |-> "up"]
    /\ pc = "idle"
    /\ window = NoWindow
    /\ creation_metrics = NotRun
    /\ access_patterns = NotRun
    /\ movement_data = NotRun
    /\ usage_data = NotRun
    /\ hourly_data = << >>
    /\ analysis = NotRun
    /\ locals = NoLocals

\* generate_sample_data up to its loop: flushall, then the counters set to 0
PopulateInit ==
    /\ pc = "idle"
    /\ populator.pc = "start"
    /\ redis' = [has_total |-> TRUE, total_records |-> 0,
                 by_source |-> [x \in Sources |-> 0]]
    /\ populator' = [pc |-> "loop", records_created |-> 0]
    /\ UNCHANGED <<data_creation, data_access, data_movements,
                   backend, pc, window, reports, hourly_data, analysis, locals>>

\* one pass of the innermost loop of generate_sample_data: one record into
\* each store and the counters incremented
PopulateRecord ==
    /\ pc = "idle"
    /\ populator.pc = "loop"
    /\ populator.records_created < MaxRecords
    /\ \E ts \in TimeSample, source \in Sources, user \in Users,
          action \in Actions, status \in Statuses :
       \E dest \in Sources \ {source} :
        LET c == [timestamp |-> ts, source |-> source]
            a == [timestamp |-> ts, user_id |-> user, action |-> action]
            m == [timestamp |-> ts, source |-> source, destination |-> dest,
                  status |-> status]
        IN  /\ data_creation' = [data_creation EXCEPT ![c] = @ + 1]
            /\ data_access' = [data_access EXCEPT ![a] = @ + 1]
            /\ data_movements' = [data_movements EXCEPT ![m] = @ + 1]
            /\ redis' = [redis EXCEPT !.total_records = @ + 1,
                                      !.by_source[source] = @ + 1]
    /\ populator' = [populator EXCEPT !.records_created = @ + 1]
    /\ UNCHANGED <<backend, pc, window, reports, hourly_data, analysis, locals>>

\* render_sidebar: the window of this run goes into session_state; the stores
\* are as reachable as they are for the whole run
RenderSidebar ==
    /\ pc = "idle"
    /\ window' \in Windows
    /\ backend' \in {b \in [Backends -> {"up", "unreachable", "rejecting"}] :
                        Cardinality(Faulty(b)) <= MaxFaulty}
    /\ pc' = "creation"
    /\ UNCHANGED <<stores, reports, hourly_data, analysis, locals>>

\* render_overview, first call
FetchCreation ==
    /\ pc = "creation"
    /\ \E results \in Aggregate(data_creation, window) :
        creation_metrics' = get_creation_metrics(backend["mongo"], results)
    /\ pc' = "access"
    /\ UNCHANGED <<stores, backend, window, access_patterns, movement_data,
                   usage_data, hourly_data, analysis, locals>>

\* render_overview, second call
FetchAccess ==
    /\ pc = "access"
    /\ access_patterns' = get_access_patterns(backend["elasticsearch"], data_access, window)
    /\ pc' = "movement"
    /\ UNCHANGED <<stores, backend, window, creation_metrics, movement_data,
                   usage_data, hourly_data, analysis, locals>>

\* render_overview, third call
FetchMovement ==
    /\ pc = "movement"
    /\ \E results \in SelectMovements(data_movements, window) :
        movement_data' = get_movement_data(backend["timescale"], results)
    /\ pc' = "usage"
    /\ UNCHANGED <<stores, backend, window, creation_metrics, access_patterns,
                   usage_data, hourly_data, analysis, locals>>

\* render_usage_analytics
FetchUsage ==
    /\ pc = "usage"
    /\ usage_data' = get_usage_analytics(backend["redis"], backend["elasticsearch"],
                                         redis, data_access, window)
    /\ pc' = "load"
    /\ UNCHANGED <<stores, backend, window, creation_metrics, access_patterns,
                   movement_data, hourly_data, analysis, locals>>

\* render_load_analysis: the creation report is fetched again and its by_hour
\* goes to the classifier
RenderLoadAnalysis ==
    /\ pc = "load"
    /\ \E results \in Aggregate(data_creation, window) :
        LET metrics == get_creation_metrics(backend["mongo"], results)
        IN  IF metrics # None
            THEN /\ hourly_data' = metrics.by_hour
                 /\ analysis' = analyze_load_patterns(metrics.by_hour)
            ELSE UNCHANGED <<hourly_data, analysis>>
    /\ pc' = "done"
    /\ UNCHANGED <<stores, backend, window, reports, locals>>

\* the script ends and its locals go; the next run's render_sidebar writes the
\* window before anything reads it, and finds the stores as they are then
Rerun ==
    /\ pc = "done"
    /\ pc' = "idle"
    /\ creation_metrics' = NotRun
    /\ access_patterns' = NotRun
    /\ movement_data' = NotRun
    /\ usage_data' = NotRun
    /\ hourly_data' = << >>
    /\ analysis' = NotRun
    /\ window' = NoWindow
    /\ backend' = [x \in Backends |-> "up"]
    /\ UNCHANGED <<stores, locals>>

Next ==
    \/ PopulateInit
    \/ PopulateRecord
    \/ RenderSidebar
    \/ FetchCreation
    \/ FetchAccess
    \/ FetchMovement
    \/ FetchUsage
    \/ RenderLoadAnalysis
    \/ Rerun

Spec == Init /\ [][Next]_vars

\* ---- the classifier called directly
\* insertion-ordered mappings of at most n entries with distinct hours, all
\* keys of one kind ("str" as in {"9": 5}, "int" as in {9: 5})
RECURSIVE HourlyInputs(_, _)
HourlyInputs(kind, n) ==
    IF n = 0 THEN {<< >>}
    ELSE LET shorter == HourlyInputs(kind, n - 1)
         IN  shorter \cup
             {Append(t[1], [key |-> [kind |-> kind, hour |-> t[2]], val |-> t[3]]) :
                t \in {u \in shorter \X HourSample \X (0..MaxCount) :
                          /\ Len(u[1]) = n - 1
                          /\ \A i \in 1..Len(u[1]) : u[1][i].key.hour # u[2]}}

\* the full day of generate_sample_data's shape: every hour present, one
\* count for the hours 9..17 and another for the rest, keys in hour order
FullDay(kind, work_count, off_count) ==
    [i \in 1..HoursPerDay |->
        [key |-> [kind |-> kind, hour |-> i - 1],
         val |-> IF (i - 1) \in work_hours THEN work_count ELSE off_count]]

FullDayInputs == {FullDay(kind, 100, 10) : kind \in {"str", "int"}}

InitLoad ==
    /\ hourly_data \in HourlyInputs("str", MaxHours) \cup HourlyInputs("int", MaxHours)
                        \cup FullDayInputs
    /\ analysis = NotRun
    /\ data_creation = [d \in CreationDocs |-> 0]
    /\ data_access = [d \in AccessDocs |-> 0]
    /\ data_movements = [r \in MovementRows |-> 0]
    /\ redis = [has_total |-> FALSE, total_records |-> 0, by_source |-> << >>]
    /\ populator = [pc |-> "start", records_created |-> 0]
    /\ backend = [x \in Backends |-> "up"]
    /\ pc = "direct"
    /\ window = NoWindow
    /\ creation_metrics = NotRun
    /\ access_patterns = NotRun
    /\ movement_data = NotRun
    /\ usage_data = NotRun
    /\ locals = NoLocals

\* detector.analyze_load_patterns(hourly_data)
AnalyzeLoad ==
    /\ pc = "direct"
    /\ analysis = NotRun
    /\ analysis' = analyze_load_patterns(hourly_data)
    /\ UNCHANGED <<stores, backend, pc, window, reports, hourly_data, locals>>

NextLoad == AnalyzeLoad

SpecLoad == InitLoad /\ [][NextLoad]_vars

\* ---- get_usage_analytics running while generate_sample_data writes
\* a return that rejects counters that disagree with each other
UsageReportChecked(total_records, by_source, over_time) ==
    IF total_records # SumOver(by_source, DOMAIN by_source) THEN None
    ELSE [tag |-> "report",
          current_metrics |-> [total_records |-> total_records, by_source |-> by_source],
          historical_metrics |-> [over_time |-> over_time]]

\* the dict that get_usage_analytics returns
UsageReport(total_records, by_source, over_time) ==
    [tag |-> "report",
     current_metrics |-> [total_records |-> total_records, by_source |-> by_source],
     historical_metrics |-> [over_time |-> over_time]]

\* the populator past its counter initialisation, the dashboard entering
\* get_usage_analytics with some window and the stores as reachable as they are
InitRace ==
    /\ data_creation = [d \in CreationDocs |-> 0]
    /\ data_access = [d \in AccessDocs |-> 0]
    /\ data_movements = [r \in MovementRows |-> 0]
    /\ redis = [has_total |-> TRUE, total_records |-> 0,
                by_source |-> [x \in Sources |-> 0]]
    /\ populator = [pc |-> "loop", records_created |-> 0]
    /\ backend \in {b \in [Backends -> {"up", "unreachable", "rejecting"}] :
                       /\ Cardinality(Faulty(b)) <= MaxFaulty
                       /\ Faulty(b) \subseteq {"redis", "elasticsearch"}}
    /\ pc = "get"
    /\ window \in Windows
    /\ creation_metrics = NotRun
    /\ access_patterns = NotRun
    /\ movement_data = NotRun
    /\ usage_data = NotRun
    /\ hourly_data = << >>
    /\ analysis = NotRun
    /\ locals = NoLocals

\* one record of the innermost loop written to the three stores
InsertRecord ==
    /\ populator.pc = "loop"
    /\ populator.records_created < MaxRecords
    /\ \E ts \in TimeSample, source \in Sources, user \in Users,
          action \in Actions, status \in Statuses :
       \E dest \in Sources \ {source} :
        LET c == [timestamp |-> ts, source |-> source]
            a == [timestamp |-> ts, user_id |-> user, action |-> action]
            m == [timestamp |-> ts, source |-> source, destination |-> dest,
                  status |-> status]
        IN  /\ data_creation' = [data_creation EXCEPT ![c] = @ + 1]
            /\ data_access' = [data_access EXCEPT ![a] = @ + 1]
            /\ data_movements' = [data_movements EXCEPT ![m] = @ + 1]
            /\ locals' = [locals EXCEPT !.source = source]
    /\ populator' = [populator EXCEPT !.pc = "incr"]
    /\ UNCHANGED <<redis, backend, pc, window, reports, hourly_data, analysis>>

\* redis_client.incr('usage:total_records')
IncrTotalRecords ==
    /\ populator.pc = "incr"
    /\ redis' = [redis EXCEPT !.total_records = @ + 1]
    /\ populator' = [populator EXCEPT !.pc = "hincrby"]
    /\ UNCHANGED <<data_creation, data_access, data_movements, backend, pc,
                   window, reports, hourly_data, analysis, locals>>

\* redis_client.hincrby('usage:by_source', source, 1)
HIncrBySource ==
    /\ populator.pc = "hincrby"
    /\ redis' = [redis EXCEPT !.by_source[locals.source] = @ + 1]
    /\ populator' = [pc |-> "loop", records_created |-> populator.records_created + 1]
    /\ UNCHANGED <<data_creation, data_access, data_movements, backend, pc,
                   window, reports, hourly_data, analysis, locals>>

\* int(self.redis_client.get('usage:total_records') or 0)
GetTotalRecords ==
    /\ pc = "get"
    /\ IF backend["redis"] # "up"
       THEN /\ usage_data' = None
            /\ pc' = "returned"
            /\ UNCHANGED locals
       ELSE /\ locals' = [locals EXCEPT
                            !.total_records = CurrentMetrics(redis).total_records]
            /\ pc' = "hgetall"
            /\ UNCHANGED usage_data
    /\ UNCHANGED <<stores, backend, window, creation_metrics, access_patterns,
                   movement_data, hourly_data, analysis>>

\* self.redis_client.hgetall('usage:by_source'), decoded
HGetAllBySource ==
    /\ pc = "hgetall"
    /\ locals' = [locals EXCEPT !.by_source = CurrentMetrics(redis).by_source]
    /\ pc' = "search"
    /\ UNCHANGED <<stores, backend, window, reports, hourly_data, analysis>>

\* the usage_over_time search, then the return
SearchUsageOverTime ==
    /\ pc = "search"
    /\ usage_data' = IF backend["elasticsearch"] # "up" THEN None
                     ELSE UsageReport(locals.total_records, locals.by_source,
                                      DateHistogram(data_access, window))
    /\ pc' = "returned"
    /\ UNCHANGED <<stores, backend, window, creation_metrics, access_patterns,
                   movement_data, hourly_data, analysis, locals>>

NextRace ==
    \/ InsertRecord
    \/ IncrTotalRecords
    \/ HIncrBySource
    \/ GetTotalRecords
    \/ HGetAllBySource
    \/ SearchUsageOverTime

SpecRace == InitRace /\ [][NextRace]_vars

\* ================================================================ claims
\* ---- reports of a dashboard run (Spec)
IsReport(r) == r.tag = "report"
Fetched(r) == r # NotRun
RowCounts(rows) == SumSeq([i \in 1..Len(rows) |-> rows[i].movement_count])

\* C1: every creation report has total_count equal to the sum of its
\* by_source values.
C1_TotalIsSumBySource ==
    IsReport(creation_metrics) =>
        creation_metrics.total_count = SumSeq(DictValues(creation_metrics.by_source))

\* a creation report over one row that counts two documents
C1_Witness ==
    /\ IsReport(creation_metrics)
    /\ Len(creation_metrics.trend_data) = 1
    /\ creation_metrics.total_count = 2

\* C2: every movement report has summary.total_movements equal to the sum of
\* movement_count over its rows.
C2_TotalIsSumOfMovementCount ==
    IsReport(movement_data) =>
        movement_data.summary.total_movements = RowCounts(movement_data.movements)

\* a movement report over one row that counts two movements
C2_Witness ==
    /\ IsReport(movement_data)
    /\ Len(movement_data.movements) = 1
    /\ movement_data.movements[1].movement_count = 2

\* C3: with its store up and no event in the window, each of the creation,
\* movement and access queries returns a report with zero totals and empty
\* mappings, not a failure value.
C3_EmptyWindowGivesZeroReport ==
    /\ (Fetched(creation_metrics) /\ backend["mongo"] = "up"
            /\ CreationGroups(data_creation, window) = {})
        => /\ IsReport(creation_metrics)
           /\ creation_metrics.total_count = 0
           /\ creation_metrics.by_source = << >>
           /\ creation_metrics.by_hour = << >>
           /\ creation_metrics.trend_data = << >>
    /\ (Fetched(access_patterns) /\ backend["elasticsearch"] = "up"
            /\ Matching(data_access, window) = {})
        => /\ IsReport(access_patterns)
           /\ access_patterns.by_hour = << >>
           /\ access_patterns.by_user = << >>
           /\ access_patterns.by_action = << >>
    /\ (Fetched(movement_data) /\ backend["timescale"] = "up"
            /\ MovementGroups(data_movements, window) = {})
        => /\ IsReport(movement_data)
           /\ movement_data.summary.total_movements = 0
           /\ movement_data.movements = << >>
           /\ movement_data.summary.by_status = << >>
           /\ movement_data.summary.by_source = << >>

RowsWith(rows, field, v) == {i \in 1..Len(rows) : rows[i][field] = v}
CountWith(rows, field, v) ==
    SumOver([i \in 1..Len(rows) |-> rows[i].movement_count], RowsWith(rows, field, v))

\* C4: in a movement report by_status[s] is the sum of movement_count over the
\* rows of status s, by_source[x] the sum over the rows of source x, and the
\* keys are exactly the statuses and sources that occur in some row.
C4_DistributionsSumMovementCount ==
    IsReport(movement_data) =>
        LET rows == movement_data.movements
            by_status == movement_data.summary.by_status
            by_source == movement_data.summary.by_source
        IN  /\ DOMAIN by_status = {rows[i].status : i \in 1..Len(rows)}
            /\ DOMAIN by_source = {rows[i].source : i \in 1..Len(rows)}
            /\ \A s \in DOMAIN by_status : by_status[s] = CountWith(rows, "status", s)
            /\ \A x \in DOMAIN by_source : by_source[x] = CountWith(rows, "source", x)

UsageSourcesDown == {x \in {"redis", "elasticsearch"} : backend[x] # "up"}

Unreachable == {x \in Backends : backend[x] = "unreachable"}

\* C6: in a run of the four operations in which exactly one store fails with
\* a connection error, the three report types other than the failed store's
\* own are all returned as reports.
C6_OneFailureLeavesThreeReports ==
    (pc = "load" /\ Cardinality(Unreachable) = 1 /\ Faulty(backend) = Unreachable) =>
        /\ "mongo" \notin Unreachable => IsReport(creation_metrics)
        /\ "elasticsearch" \notin Unreachable => IsReport(access_patterns)
        /\ "timescale" \notin Unreachable => IsReport(movement_data)
        /\ "redis" \notin Unreachable => IsReport(usage_data)

RowsOf(rows, field, v) == {i \in 1..Len(rows) : rows[i][field] = v}
CountOf(rows, S) == SumOver([i \in 1..Len(rows) |-> rows[i].count], S)
NoRepeatedKey(d) == \A i, j \in 1..Len(d) : i # j => d[i].key # d[j].key

\* C15: a creation report has by_source[s] = the sum of count over the rows
\* of source s, by_hour[h] = the sum over the rows of hour h, and trend_data
\* = the rows of the window in the adapter's order, date then hour; the one
\* row {date 2024-01-01 (day 0), hour 0, web, 5} gives {total_count: 5,
\* by_source: {web: 5}, by_hour: {0: 5}, trend_data: [that row]}.
C15_CreationReportFromRows ==
    /\ IsReport(creation_metrics) =>
        LET rows == creation_metrics.trend_data
            by_source == creation_metrics.by_source
            by_hour == creation_metrics.by_hour
        IN  /\ rows \in Aggregate(data_creation, window)
            /\ \A i \in 1..(Len(rows) - 1) :
                    \/ rows[i].date < rows[i + 1].date
                    \/ rows[i].date = rows[i + 1].date /\ rows[i].hour <= rows[i + 1].hour
            /\ NoRepeatedKey(by_source) /\ NoRepeatedKey(by_hour)
            /\ DictKeys(by_source) = {rows[i].source : i \in 1..Len(rows)}
            /\ DictKeys(by_hour) = {IntKey(rows[i].hour) : i \in 1..Len(rows)}
            /\ \A k \in DictKeys(by_source) :
                    DictGet(by_source, k) = CountOf(rows, RowsOf(rows, "source", k))
            /\ \A k \in DictKeys(by_hour) :
                    DictGet(by_hour, k) = CountOf(rows, RowsOf(rows, "hour", k.hour))
    /\ LET row == [date |-> 0, hour |-> 0, source |-> "web", count |-> 5]
       IN  get_creation_metrics("up", <<row>>) =
              [tag |-> "report", total_count |-> 5,
               by_source |-> <<[key |-> "web", val |-> 5]>>,
               by_hour |-> <<[key |-> IntKey(0), val |-> 5]>>,
               trend_data |-> <<row>>]

\* a creation report over two rows of the same hour on two days
C15_Witness ==
    /\ IsReport(creation_metrics)
    /\ Len(creation_metrics.trend_data) = 2
    /\ creation_metrics.trend_data[1].date < creation_metrics.trend_data[2].date
    /\ creation_metrics.trend_data[1].hour = creation_metrics.trend_data[2].hour
    /\ Len(creation_metrics.by_hour) = 1

\* C16: the current half of a usage report is read from the counters alone,
\* whatever the window: total_records is the counter, or 0 when the key is
\* absent, and by_source is the table, empty when never initialized; absent
\* counters are no failure.
C16_CurrentHalfIsTheCounters ==
    (Fetched(usage_data) /\ UsageSourcesDown = {}) =>
        /\ IsReport(usage_data)
        /\ usage_data.current_metrics.total_records
              = (IF redis.has_total THEN redis.total_records ELSE 0)
        /\ usage_data.current_metrics.by_source = redis.by_source
        /\ (~redis.has_total /\ redis.by_source = << >>) =>
              usage_data.current_metrics = [total_records |-> 0, by_source |-> << >>]

\* a usage report read while the counters were never initialized
C16_Witness ==
    /\ IsReport(usage_data)
    /\ ~redis.has_total
    /\ redis.by_source = << >>
    /\ window.start < window.end

\* C19: in a creation report the by_hour values, the by_source values and
\* the counts of trend_data all sum to total_count.
C19_BreakdownsAccountForSameEvents ==
    IsReport(creation_metrics) =>
        LET rows == creation_metrics.trend_data
        IN  /\ SumSeq(DictValues(creation_metrics.by_hour)) = creation_metrics.total_count
            /\ SumSeq(DictValues(creation_metrics.by_source)) = creation_metrics.total_count
            /\ CountOf(rows, 1..Len(rows)) = creation_metrics.total_count

\* a creation report over two rows of one source in two different hours
C19_Witness ==
    /\ IsReport(creation_metrics)
    /\ Len(creation_metrics.trend_data) = 2
    /\ Len(creation_metrics.by_source) = 1
    /\ Len(creation_metrics.by_hour) = 2
    /\ creation_metrics.total_count = 2

\* the events of a store stamped from lo to hi, both included
EventsIn(coll, lo, hi) ==
    SumOver(coll, {d \in DOMAIN coll : lo <= d.timestamp /\ d.timestamp <= hi})

\* C21: in one run, with the index unchanged and the same window, over_time
\* of the usage report equals by_hour of the access report, and each bucket
\* is the number of data_access events of that hour.
C21_UsageOverTimeIsAccessByHour ==
    (IsReport(usage_data) /\ IsReport(access_patterns)) =>
        /\ usage_data.historical_metrics.over_time = access_patterns.by_hour
        /\ \A t \in DOMAIN usage_data.historical_metrics.over_time :
              /\ window.start <= t /\ t <= window.end
              /\ usage_data.historical_metrics.over_time[t] = EventsIn(data_access, t, t)

\* both reports of a run that has an access event in its window's last hour
C21_Witness ==
    /\ IsReport(usage_data)
    /\ IsReport(access_patterns)
    /\ window.start < window.end
    /\ window.end \in DOMAIN usage_data.historical_metrics.over_time
    /\ window.start \in DOMAIN access_patterns.by_hour

HistogramTotal(h) == SumOver(h, DOMAIN h)

\* C22: the creation, movement and access queries count every event stamped
\* from start to end, both ends included; so an event stamped exactly b is
\* in the rows of the run's window [a, b] and in those of any window [b, c].
C22_WindowInclusiveAtBothEnds ==
    /\ IsReport(creation_metrics) =>
          creation_metrics.total_count
            = EventsIn(data_creation, window.start, window.end)
    /\ IsReport(movement_data) =>
          movement_data.summary.total_movements
            = EventsIn(data_movements, window.start, window.end)
    /\ IsReport(access_patterns) =>
          HistogramTotal(access_patterns.by_hour)
            = EventsIn(data_access, window.start, window.end)
    /\ pc = "creation" =>
        \A c \in {t \in TimeSample : window.end <= t} :
          LET b == window.end IN
          \A w \in {window, [start |-> b, end |-> c]} :
            /\ \A d \in CreationDocs : (d.timestamp = b /\ data_creation[d] > 0) =>
                  \E g \in CreationGroups(data_creation, w) :
                      /\ g.date = DateOf(b) /\ g.hour = HourOf(b) /\ g.source = d.source
                      /\ g.count >= data_creation[d]
            /\ \A r \in MovementRows : (r.timestamp = b /\ data_movements[r] > 0) =>
                  \E g \in MovementGroups(data_movements, w) :
                      /\ g.hour = b /\ g.source = r.source /\ g.status = r.status
                      /\ g.movement_count >= data_movements[r]
            /\ \A d \in AccessDocs : (d.timestamp = b /\ data_access[d] > 0) =>
                  /\ b \in DOMAIN DateHistogram(data_access, w)
                  /\ DateHistogram(data_access, w)[b] >= data_access[d]

\* the three reports of a run whose window has one event exactly at its
\* start and one exactly at its end, both counted
C22_Witness ==
    /\ IsReport(creation_metrics) /\ IsReport(movement_data) /\ IsReport(access_patterns)
    /\ window.start < window.end
    /\ EventsIn(data_creation, window.start, window.start) = 1
    /\ EventsIn(data_creation, window.end, window.end) = 1
    /\ creation_metrics.total_count = 2
    /\ movement_data.summary.total_movements = 2
    /\ HistogramTotal(access_patterns.by_hour) = 2

\* ---- concurrent counter writes (SpecRace)
BySourceTotal(by_source) == SumOver(by_source, DOMAIN by_source)

\* C17: with the populator incrementing usage:total_records and
\* usage:by_source between the two cache reads of get_usage_analytics, in any
\* interleaving, the call returns a usage report when the cache and the
\* index are reachable; the halves it carries are values the counters held,
\* and nothing compares total_records with the sum of by_source.
C17_ReportUnderConcurrentIncrements ==
    (pc = "returned" /\ UsageSourcesDown = {}) =>
        /\ IsReport(usage_data)
        /\ usage_data.current_metrics.total_records <= redis.total_records
        /\ \A x \in Sources :
              usage_data.current_metrics.by_source[x] <= redis.by_source[x]

\* a returned report whose total_records is not the sum of its by_source:
\* an increment fell between the two reads
C17_Witness ==
    /\ pc = "returned"
    /\ IsReport(usage_data)
    /\ usage_data.current_metrics.total_records
         # BySourceTotal(usage_data.current_metrics.by_source)

\* ---- load classifier (SpecLoad)
InputTotal == SumSeq(DictValues(hourly_data))
InputHours == Len(hourly_data)
Classified == analysis.tag = "analysis"
StatusesOf(a) == {a.patterns[i].status : i \in 1..Len(a.patterns)}

PresentCounts(work) ==
    LET idx == {i \in 1..Len(hourly_data) : (hourly_data[i].key.hour \in 9..17) = work}
        RECURSIVE Total(_)
        Total(S) == IF S = {} THEN 0
                    ELSE LET i == CHOOSE j \in S : TRUE
                         IN  hourly_data[i].val + Total(S \ {i})
    IN  [n |-> Cardinality(idx), total |-> Total(idx)]

MeanOrGlobal(avg, part) ==
    IF part.n > 0
    THEN avg.num * part.n = part.total * avg.den
    ELSE avg.num * InputHours = InputTotal * avg.den

\* C9: for string keys and for integer keys alike, work_hours_avg is the mean
\* of the counts of the present hours 9..17 and off_hours_avg the mean of the
\* counts of the other present hours; the global average stands in only for
\* a partition with no hour present.
C9_PartitionAverages ==
    Classified =>
        /\ MeanOrGlobal(analysis.summary.work_hours_avg, PresentCounts(TRUE))
        /\ MeanOrGlobal(analysis.summary.off_hours_avg, PresentCounts(FALSE))

\* C10: patterns holds one entry per input hour in non-increasing count order,
\* peak_hours is its first min(3, n) entries and quiet_hours its last
\* min(3, n) entries.
C10_PeakAndQuietHours ==
    Classified =>
        LET ps == analysis.patterns
            n == InputHours
            k == IF n < 3 THEN n ELSE 3
            peak == analysis.summary.peak_hours
            quiet == analysis.summary.quiet_hours
        IN  /\ Len(ps) = n
            /\ \A i \in 1..(n - 1) : ps[i].count >= ps[i + 1].count
            /\ Len(peak) = k /\ Len(quiet) = k
            /\ \A i \in 1..k : peak[i] = ps[i] /\ quiet[i] = ps[n - k + i]
            /\ \A i \in 1..k : \A j \in 1..n : peak[i].count >= ps[j].count \/ j < i
            /\ \A i \in 1..k : \A j \in 1..n : quiet[i].count <= ps[j].count \/ j > n - k + i

\* four hours with different counts: peak and quiet differ and share entries
C10_Witness ==
    /\ Classified
    /\ Len(analysis.patterns) = 4
    /\ \A i \in 1..3 : analysis.patterns[i].count > analysis.patterns[i + 1].count
    /\ analysis.summary.peak_hours # analysis.summary.quiet_hours
    /\ analysis.summary.peak_hours[2] = analysis.summary.quiet_hours[1]

\* C12: for every non-empty mapping with hour keys and non-negative counts,
\* a mapping of zeros included, analyze_load_patterns returns a result and
\* does not fail.
C12_NonEmptyInputGivesResult ==
    (pc = "direct" /\ analysis # NotRun /\ hourly_data # << >>) => Classified

\* C13: called with an empty mapping, analyze_load_patterns returns None (no
\* patterns, no summary) and raises nothing.
C13_EmptyInputGivesNone ==
    (analysis # NotRun /\ hourly_data = << >>) => analysis = None

\* the classifier has been called with the empty mapping
C13_Witness ==
    /\ pc = "direct"
    /\ hourly_data = << >>
    /\ analysis = None

IsFullDay == hourly_data \in FullDayInputs
RatioOfCount(c) ==
    {analysis.patterns[i].load_ratio :
        i \in {j \in 1..Len(analysis.patterns) : analysis.patterns[j].count = c}}
StatusOfCount(c) ==
    {analysis.patterns[i].status :
        i \in {j \in 1..Len(analysis.patterns) : analysis.patterns[j].count = c}}
\* x rounds to m / scale at the precision of scale
RoundsTo(x, m, scale) ==
    /\ (2 * m - 1) * x.den <= 2 * scale * x.num
    /\ 2 * scale * x.num < (2 * m + 1) * x.den

\* C14: for the day with count 100 in each hour 9..17 and 10 in every other
\* hour the overall average is about 44.4, a count of 100 has load_ratio about
\* 2.25 and status high, a count of 10 load_ratio about 0.225 and status low.
C14_FullDayAbout44 ==
    (IsFullDay /\ analysis # NotRun) =>
        /\ Classified
        /\ RoundsTo(analysis.summary.average_load, 444, 10)
        /\ \A r \in RatioOfCount(100) : RoundsTo(r, 225, 100)
        /\ \A r \in RatioOfCount(10) : RoundsTo(r, 225, 1000)
        /\ StatusOfCount(100) = {"high"}
        /\ StatusOfCount(10) = {"low"}

\* C14 as amended: for that day the overall average is 43.75, a count of 100
\* has load_ratio 16/7 (about 2.29) and status high, a count of 10 has
\* load_ratio 8/35 (about 0.229) and status low.
C14_FullDayAverage4375 ==
    (IsFullDay /\ analysis # NotRun) =>
        /\ Classified
        /\ FracEq(analysis.summary.average_load, Frac(4375, 100))
        /\ \A r \in RatioOfCount(100) : FracEq(r, Frac(16, 7)) /\ RoundsTo(r, 229, 100)
        /\ \A r \in RatioOfCount(10) : FracEq(r, Frac(8, 35)) /\ RoundsTo(r, 229, 1000)
        /\ StatusOfCount(100) = {"high"}
        /\ StatusOfCount(10) = {"low"}
        /\ analysis.summary.high_load_hours = 9
        /\ analysis.summary.low_load_hours = 15

\* the string-keyed day has been classified: work hours average 100, the
\* other hours 10
C14_Witness ==
    /\ IsFullDay
    /\ Classified
    /\ FracEq(analysis.summary.work_hours_avg, Frac(100, 1))
    /\ FracEq(analysis.summary.off_hours_avg, Frac(10, 1))

\* C18: is_work_hour is true exactly for the hours 9..17, expected_threshold
\* is 1.1 times the average of the present work hours for a work hour and 0.9
\* times the average of the other present hours for any other hour, and the
\* status follows from the count and the global average alone.
C18_ThresholdFromPartitionAverage ==
    Classified =>
        \A i \in 1..Len(analysis.patterns) :
            LET p == analysis.patterns[i]
                part == PresentCounts(p.is_work_hour)
                high == 10 * p.count * InputHours >= 11 * InputTotal
                low == 10 * p.count * InputHours <= 9 * InputTotal
            IN  /\ p.is_work_hour = (p.hour \in 9..17)
                /\ part.n > 0
                /\ p.expected_threshold.num * 10 * part.n
                      = (IF p.is_work_hour THEN 11 ELSE 9) * part.total * p.expected_threshold.den
                /\ p.status = (IF high THEN "high" ELSE IF low THEN "low" ELSE "normal")

HourCounts(entries, hourOf(_), countOf(_)) ==
    {<<hourOf(entries[i]), countOf(entries[i])>> : i \in 1..Len(entries)}
KeyHour(e) == e.key.hour
EntryVal(e) == e.val
PatternHour(q) == q.hour
PatternCount(q) == q.count

\* C20: patterns holds exactly one entry per key of the input, with that
\* key's hour and count, and high_load_hours + low_load_hours + the number of
\* normal patterns is the number of input hours.
C20_OnePatternPerHour ==
    Classified =>
        LET ps == analysis.patterns
            normal == Cardinality({i \in 1..Len(ps) : ps[i].status = "normal"})
        IN  /\ Len(ps) = InputHours
            /\ \A i, j \in 1..Len(ps) : i # j => ps[i].hour # ps[j].hour
            /\ HourCounts(ps, PatternHour, PatternCount)
                  = HourCounts(hourly_data, KeyHour, EntryVal)
            /\ analysis.summary.high_load_hours + analysis.summary.low_load_hours
                  + normal = InputHours

\* four hours classified, two of them with the same count, one hour of each
\* status among them
C20_Witness ==
    /\ Classified
    /\ Len(analysis.patterns) = 4
    /\ \E i \in 1..3 : analysis.patterns[i].count = analysis.patterns[i + 1].count
    /\ StatusesOf(analysis) = {"high", "normal", "low"}

====
